---- MODULE Spec2Model ----
(***************************************************************************)
(* Model of the OAuth token lifecycle manager (jobber/auth.py) and of the  *)
(* facade client's bounded retry (jobber/client.py).                       *)
(*                                                                         *)
(* Threads are the callers of the public API and the threading.Timer       *)
(* threads that run TokenManager._proactive_refresh.  A thread's position  *)
(* inside a TokenManager method is pc[t]; the blocking points of the code  *)
(* (lock acquisition, the token-endpoint POST, each `doppler secrets set`  *)
(* subprocess, the GraphQL POST) separate the steps.                       *)
(*                                                                         *)
(* Time is time.time() with half-second resolution: now = [sec, half]      *)
(* stands for sec + half/2, so that int() truncation in the code is        *)
(* something the model can get wrong.                                      *)
(***************************************************************************)
EXTENDS Integers, Sequences, FiniteSets, TLC

(* ------------------------------- bounds -------------------------------- *)
MaxSec == 1
MaxIssued == 3

(* the threads: one uses the facade (JobberClient.execute_query), one calls
   the TokenManager directly (get_token, refresh_on_401), and the
   threading.Timer threads run _proactive_refresh *)
NoThread == "nobody"
Clients == {"client"}
Direct == {"direct"}
Callers == Clients \cup Direct
TimerThreads == {"timer"}
Threads == Callers \cup TimerThreads

(* input domains *)
\* int(time.time()) when the TokenManager is constructed: late enough for
\* str(expires_at) to have one digit for some Token States and two for others
StartSec == 8
Buffers == {0, 2}
InitExpiries == {StartSec + 2, StartSec + 3}
Lifetimes == {1, 3}
DataVals == {1, 2}

VARIABLES
    now,                     \* time.time(), [sec, half]
    refresh_buffer_seconds,  \* TokenManager.refresh_buffer_seconds
    proactive_refresh,       \* TokenManager.proactive_refresh
    token,                   \* TokenManager._token
    doppler,                 \* the three secrets of the Doppler scope
    lock,                    \* TokenManager._lock: its holder, or NoThread
    refresh_timer,           \* TokenManager._refresh_timer
    issued,                  \* number of token pairs the server has issued
    pc, meth, inEq,          \* per thread: position, TokenManager method,
                             \*   whether execute_query is the caller
    eq,                      \* per thread: history of its execute_query call
    waited,                  \* per thread blocked in get_token: what it waited for
    h,                       \* history of the call that holds the lock
    evTM, evEQ,              \* the return of a TokenManager method / of
                             \*   execute_query made by the last step
    dirty,                   \* the last save was cut short by a failed write
    unlockedAccess,          \* _token was touched without holding the lock
    proactive_failed,        \* the POST of a proactive refresh has failed and
                             \*   no get_token() has returned since
    pending_timers,          \* threading.Timer objects started, not yet
                             \*   fired and not cancelled
    server_refresh_token,    \* the refresh token of the last grant of the
                             \*   token endpoint that carried one
    client_executor,         \* JobberClient._executor
    executor,                \* one GraphQLExecutor used on its own
    evX,                     \* the execute() call made on it by the last step
    seen                     \* the throttle section of the last response it
                             \*   classified that had one

cfg == <<refresh_buffer_seconds, proactive_refresh>>
tmvars == <<now, refresh_buffer_seconds, proactive_refresh, token, doppler, lock,
            refresh_timer, issued, pc, meth, inEq, eq, waited, h,
            evTM, evEQ, dirty, unlockedAccess, proactive_failed,
            pending_timers, server_refresh_token>>
exvars == <<executor, evX, seen>>
vars == <<tmvars, client_executor, exvars>>

(* ------------------------------ TokenInfo ------------------------------ *)
\* time.time() >= expires_at, with time.time() = sec + half/2
is_expired(tok, clk) == clk.sec >= tok.expires_at

\* int(expires_at - time.time()): int() truncates toward zero
IntTrunc(tok, clk) ==
    IF clk.half = 0 THEN tok.expires_at - clk.sec
    ELSE IF tok.expires_at > clk.sec THEN tok.expires_at - clk.sec - 1
    ELSE tok.expires_at - clk.sec

expires_in_seconds(tok, clk) ==
    IF IntTrunc(tok, clk) > 0 THEN IntTrunc(tok, clk) ELSE 0

should_refresh(tok, clk, buffer_seconds) ==
    expires_in_seconds(tok, clk) < buffer_seconds

(* ----------------------------- Secret Store ---------------------------- *)
RECURSIVE IntToStr(_)
\* str(n) for n >= 0: the decimal digits, most significant first
IntToStr(n) == IF n < 10 THEN <<n>> ELSE Append(IntToStr(n \div 10), n % 10)

\* the secrets dict of _save_to_doppler, in insertion order
SecretsWrongField(tok) ==
    << <<"JOBBER_ACCESS_TOKEN", tok.access_token>>,
       <<"JOBBER_REFRESH_TOKEN", tok.access_token>>,
       <<"JOBBER_TOKEN_EXPIRES_AT", IntToStr(tok.expires_at)>> >>
Secrets(tok) ==
    << <<"JOBBER_ACCESS_TOKEN", tok.access_token>>,
       <<"JOBBER_REFRESH_TOKEN", tok.refresh_token>>,
       <<"JOBBER_TOKEN_EXPIRES_AT", IntToStr(tok.expires_at)>> >>

\* what a scope holds once all three secrets of tok are set
Mirror(tok) ==
    [n \in {"JOBBER_ACCESS_TOKEN", "JOBBER_REFRESH_TOKEN",
            "JOBBER_TOKEN_EXPIRES_AT"} |->
        IF n = "JOBBER_ACCESS_TOKEN" THEN tok.access_token
        ELSE IF n = "JOBBER_REFRESH_TOKEN" THEN tok.refresh_token
        ELSE IntToStr(tok.expires_at)]

\* Text is a sequence of character codes.  A token is an opaque string
\* without whitespace: token n stands for the two characters "t" and the
\* digit n; a str(int) value is its digits.
Newline == 10
TokenText(n) == <<116, 48 + n>>
Chars(name, v) ==
    IF name = "JOBBER_TOKEN_EXPIRES_AT"
    THEN [i \in 1..Len(v) |-> 48 + v[i]]
    ELSE TokenText(v)

\* stdout of `doppler secrets get A R E --plain`: the three values in the
\* order asked for, one per line
Stdout(store) ==
    Chars("JOBBER_ACCESS_TOKEN", store["JOBBER_ACCESS_TOKEN"]) \o <<Newline>>
    \o Chars("JOBBER_REFRESH_TOKEN", store["JOBBER_REFRESH_TOKEN"])
    \o <<Newline>>
    \o Chars("JOBBER_TOKEN_EXPIRES_AT", store["JOBBER_TOKEN_EXPIRES_AT"])
    \o <<Newline>>

\* str.strip()
IsSpace(c) == c \in {9, 10, 11, 12, 13, 32}
RECURSIVE LStrip(_)
LStrip(s) == IF s # <<>> /\ IsSpace(Head(s)) THEN LStrip(Tail(s)) ELSE s
RECURSIVE RStrip(_)
RStrip(s) ==
    IF s # <<>> /\ IsSpace(s[Len(s)])
    THEN RStrip(SubSeq(s, 1, Len(s) - 1)) ELSE s
Strip(s) == RStrip(LStrip(s))

\* str.split(sep): the pieces between the separators, at least one
RECURSIVE Split(_, _)
Split(s, sep) ==
    IF \A i \in 1..Len(s) : s[i] # sep THEN <<s>>
    ELSE LET i == CHOOSE k \in 1..Len(s) :
                     s[k] = sep /\ \A j \in 1..(k - 1) : s[j] # sep
         IN  <<SubSeq(s, 1, i - 1)>> \o Split(SubSeq(s, i + 1, Len(s)), sep)

\* int(text) for a text of decimal digits; anything else is ValueError
IsDecimal(s) == s # <<>> /\ \A i \in 1..Len(s) : s[i] \in 48..57
ParseIntLastDigit(s) == s[Len(s)] - 48
RECURSIVE ParseInt(_)
ParseInt(s) ==
    IF Len(s) = 1 THEN s[1] - 48
    ELSE 10 * ParseInt(SubSeq(s, 1, Len(s) - 1)) + (s[Len(s)] - 48)

\* what _load_from_doppler returns (a TokenInfo whose tokens are texts) or
\* raises
Loaded(access_token, refresh_token, expires_at) ==
    [kind |-> "ok", access_token |-> access_token,
     refresh_token |-> refresh_token, expires_at |-> expires_at]
LoadRaises(k) ==
    [kind |-> k, access_token |-> <<>>, refresh_token |-> <<>>,
     expires_at |-> 0]

\* _load_from_doppler on a scope that holds the three secrets
load_from_doppler(store) ==
    LET lines == Split(Strip(Stdout(store)), Newline) IN
    IF Len(lines) # 3 THEN LoadRaises("ConfigurationError")
    ELSE IF ~IsDecimal(lines[3]) THEN LoadRaises("AuthenticationError")
    ELSE Loaded(lines[1], lines[2], ParseInt(lines[3]))

(* ------------------------------ results -------------------------------- *)
Ok(v) == [kind |-> "ok", val |-> v]
Raise(k) == [kind |-> k, val |-> 0]
NoRes == [kind |-> "none", val |-> 0]

\* history of one TokenManager call, kept while it holds the lock:
\*   posts    token-endpoint POSTs it made
\*   mine     access token its POST was issued (0: none)
\*   need     max(0, expires_at - now) < buffer when it got the lock
\*   latest   self._token was the last token issued when it got the lock
\*   issueSec, life   int(time.time()) and expires_in of its successful POST
\*   afterFail  it got the lock after the POST of a proactive refresh failed,
\*              no get_token() having returned in between
\*   sent     refresh token in the body of its POST in flight (0: none)
\*   has_refresh   its successful response had a refresh_token
\*   missing  the key its 2xx response lacked ("none": none)
NoH == [posts |-> 0, mine |-> 0, need |-> FALSE, latest |-> FALSE,
        issueSec |-> 0, life |-> 0, afterFail |-> FALSE,
        sent |-> 0, has_refresh |-> FALSE, missing |-> "none"]
\* the end of a TokenManager call: res is what the method did (for the
\* timer thread: what _refresh_token did inside the callback), out what
\* leaves it towards its caller
NoEvTM == [set |-> FALSE, meth |-> "none", inEq |-> FALSE, res |-> NoRes,
           out |-> NoRes, waited |-> "no", h |-> NoH]
\* history of one execute_query call:
\*   attempts   executor.execute calls made
\*   r401       refresh_on_401 calls made
\*   executors  GraphQLExecutor objects built
\*   refreshes  _refresh_token invocations (one POST each) made by its
\*              TokenManager calls
\*   gtPosts, gtNeed   POSTs made by its get_token, and whether the Token
\*              State was inside the buffer when get_token held the lock
\*   first      outcome of the first execute
\*   r401res    outcome of refresh_on_401
NoEq == [attempts |-> 0, r401 |-> 0, executors |-> 0, refreshes |-> 0,
         gtPosts |-> 0, gtNeed |-> FALSE, first |-> NoRes, r401res |-> NoRes]
NoEvEQ == [set |-> FALSE, q |-> NoEq, second |-> NoRes, out |-> NoRes]
Unarmed == [armed |-> FALSE, sec |-> 0, half |-> 0]

(* --------------------------- GraphQLExecutor --------------------------- *)
\* Optional values: None, or Some(x).  A dict key that is absent is None
\* (for the integer fields of a throttle status: Absent).
None == <<>>
Some(x) == <<x>>
Absent == -1

RateLimitThresholdPercent == 20      \* RATE_LIMIT_THRESHOLD = 0.20
DefaultCurrentlyAvailable == 0
DefaultMaximumAvailable == 10000
DefaultRestoreRate == 500

\* input domains: the throttleStatus dicts, the errors lists, the bodies and
\* the outcomes of requests.post
NoThrottle ==
    [currentlyAvailable |-> Absent, maximumAvailable |-> Absent,
     restoreRate |-> Absent]
LowThrottle ==
    [currentlyAvailable |-> 1000, maximumAvailable |-> 10000,
     restoreRate |-> 500]
LowThrottleRate0 ==
    [currentlyAvailable |-> 1000, maximumAvailable |-> 10000,
     restoreRate |-> 0]
HighThrottle ==
    [currentlyAvailable |-> 5000, maximumAvailable |-> 10000,
     restoreRate |-> 500]
ThrottleStatuses ==
    [currentlyAvailable : {Absent, 1000, 2000},
     maximumAvailable : {Absent, 10000},
     restoreRate : {Absent, 0, 500}] \cup {HighThrottle}
ErrorLists ==
    {<<>>, <<[message |-> Some("Field X not found")]>>,
     <<[message |-> None], [message |-> Some("Field X not found")]>>}
Texts == {"Bad Gateway", "<html>"}
Queries == {"{ clients { totalCount } }", "{ jobs { totalCount } }"}

\* response.json(): ValueError ("invalid"), JSON null, or a JSON object;
\* ext says how much of result['extensions']['cost']['throttleStatus'] the
\* object has
JsonObject(data, errors, ext, throttle) ==
    [json |-> "object", text |-> "{...}", data |-> data, errors |-> errors,
     ext |-> ext, throttle |-> throttle]
NotJson(text) ==
    [json |-> "invalid", text |-> text, data |-> None, errors |-> None,
     ext |-> "absent", throttle |-> NoThrottle]
JsonNull ==
    [json |-> "null", text |-> "null", data |-> None, errors |-> None,
     ext |-> "absent", throttle |-> NoThrottle]

ThrottleBodies ==
    {JsonObject(Some(1), None, "throttleStatus", ts) :
        ts \in ThrottleStatuses \ {LowThrottle, LowThrottleRate0, HighThrottle}}
Bodies ==
    ThrottleBodies \cup
    {NotJson(x) : x \in Texts} \cup {JsonNull} \cup
    {JsonObject(d, e, x[1], x[2]) :
        d \in {None} \cup {Some(v) : v \in DataVals},
        e \in {None} \cup {Some(l) : l \in ErrorLists},
        x \in {<<"absent", NoThrottle>>, <<"extensions", NoThrottle>>,
               <<"cost", NoThrottle>>, <<"throttleStatus", LowThrottle>>,
               <<"throttleStatus", LowThrottleRate0>>,
               <<"throttleStatus", HighThrottle>>}}
ErrorBodies ==
    {NotJson(x) : x \in Texts} \cup
    {JsonObject(Some(1), None, "absent", NoThrottle),
     JsonObject(Some(1), None, "throttleStatus", LowThrottle)}

Statuses == {200, 300, 401, 404, 500}

Response(status, body) == [kind |-> "response", status |-> status, body |-> body]
NoResponse(kind) == [kind |-> kind, status |-> 0, body |-> JsonNull]
Transports ==
    {NoResponse(k) : k \in {"Timeout", "ConnectionError", "TooManyRedirects"}}
    \cup {Response(200, b) : b \in Bodies}
    \cup {Response(st, b) : st \in Statuses \ {200}, b \in ErrorBodies}

\* what execute does: return data, or raise an exception with its fields
NoWait == [num |-> 0, den |-> 1]
Returns(data) ==
    [kind |-> "ok", data |-> data, status_code |-> 0, text |-> "",
     errors |-> <<>>, query |-> "", throttle_status |-> None,
     wait_seconds |-> NoWait]
Raises(k) ==
    [kind |-> k, data |-> None, status_code |-> 0, text |-> "",
     errors |-> <<>>, query |-> "", throttle_status |-> None,
     wait_seconds |-> NoWait]
NoRaise == Raises("none")

\* GraphQLExecutor.__init__
GraphQLExecutor(access_token) ==
    [access_token |-> access_token, last_throttle_status |-> None]

get_throttle_status(self) == self.last_throttle_status

\* dict.get(key, default)
Get(v, default) == IF v = Absent THEN default ELSE v

\* currently_available < RATE_LIMIT_THRESHOLD * maximum_available.  The
\* product is a float; for integer operands the comparison agrees with the
\* exact one (0.20 as a double is 0.2 * (1 + 2^-54), and the product of it
\* with an integer rounds to a value on the same side of every integer).
BelowThresholdInclusive(currently_available, maximum_available) ==
    100 * currently_available <= RateLimitThresholdPercent * maximum_available
BelowThreshold(currently_available, maximum_available) ==
    100 * currently_available < RateLimitThresholdPercent * maximum_available

\* _check_rate_limit: nothing, RateLimitError, or the ZeroDivisionError of
\* (threshold - currently_available) / restore_rate.  wait_seconds is the
\* quotient num / den.
check_rate_limit(throttle) ==
    LET currently_available ==
            Get(throttle.currentlyAvailable, DefaultCurrentlyAvailable)
        maximum_available ==
            Get(throttle.maximumAvailable, DefaultMaximumAvailable)
        restore_rate == Get(throttle.restoreRate, DefaultRestoreRate)
    IN  IF BelowThreshold(currently_available, maximum_available)
        THEN IF restore_rate = 0
             THEN Raises("ZeroDivisionError")
             ELSE [Raises("RateLimitError") EXCEPT
                     !.throttle_status = Some(throttle),
                     !.wait_seconds =
                        [num |-> RateLimitThresholdPercent * maximum_available
                                   - 100 * currently_available,
                         den |-> 100 * restore_rate]]
        ELSE NoRaise

\* response.status_code == 401
IsUnauthorizedOr404(status) == status \in {401, 404}
IsUnauthorized(status) == status = 401

\* response.raise_for_status(): HTTPError for a 4xx or 5xx status
RaisesForStatus(status) == status >= 400 /\ status < 600

\* self.last_throttle_status = cost['throttleStatus'], before
\* _check_rate_limit is called
StoreThrottleStatusUnlessRaised(self, throttle, checked) ==
    IF checked = NoRaise
    THEN [self EXCEPT !.last_throttle_status = Some(throttle)]
    ELSE self
StoreThrottleStatus(self, throttle, checked) ==
    [self EXCEPT !.last_throttle_status = Some(throttle)]

\* the part of execute after the rate-limit check: GraphQL errors, then the
\* data field
ClassifyBody(result, query) ==
    IF result.errors # None
    THEN IF result.errors[1] = <<>>
         THEN Raises("IndexError")                \* result['errors'][0]
         ELSE [Raises("GraphQLError") EXCEPT !.errors = result.errors[1],
                                             !.query = query]
    ELSE IF result.data = None
    THEN [Raises("GraphQLError") EXCEPT !.query = query]
    ELSE Returns(result.data)

\* GraphQLExecutor.execute on the outcome tr of its one requests.post:
\* the executor afterwards and what the call returns or raises
execute(self, query, tr) ==
    IF tr.kind = "Timeout" \/ tr.kind = "ConnectionError"
    THEN [self |-> self, res |-> Raises("NetworkError")]
    ELSE IF tr.kind # "response"
    THEN [self |-> self, res |-> Raises(tr.kind)]
    ELSE IF IsUnauthorized(tr.status)
    THEN [self |-> self,
          res |-> [Raises("AuthenticationError") EXCEPT !.status_code = 401]]
    ELSE IF RaisesForStatus(tr.status)
    THEN [self |-> self,
          res |-> [Raises("NetworkError") EXCEPT !.status_code = tr.status,
                                                 !.text = tr.body.text]]
    ELSE IF tr.body.json = "invalid"
    THEN [self |-> self,
          res |-> [Raises("NetworkError") EXCEPT !.text = tr.body.text]]
    ELSE IF tr.body.json = "null"
    THEN [self |-> self, res |-> Raises("TypeError")]  \* 'extensions' in None
    ELSE IF tr.body.ext = "throttleStatus"
    THEN LET checked == check_rate_limit(tr.body.throttle)
             stored == StoreThrottleStatus(self, tr.body.throttle, checked)
         IN  [self |-> stored,
              res |-> IF checked # NoRaise THEN checked
                      ELSE ClassifyBody(tr.body, query)]
    ELSE [self |-> self, res |-> ClassifyBody(tr.body, query)]

\* the last execute() call on the executor: its query, the outcome of its
\* requests.post, what it returned or raised, get_throttle_status() before
\* it, and the number of requests.post calls it made
NoEvX == [set |-> FALSE, query |-> "", tr |-> NoResponse("none"),
          res |-> NoRaise, before |-> None, posts |-> 0]

(* ------------------------- specification oracles ----------------------- *)
\* max(0, expires_at - now) < buffer over the reals, in half-seconds
SpecShouldRefresh(e, clk, b) ==
    LET d2 == 2 * e - (2 * clk.sec + clk.half)
    IN  (IF d2 > 0 THEN d2 ELSE 0) < 2 * b

(* ------------------------------- timer --------------------------------- *)
\* _schedule_refresh: cancel the previous timer, arm a new one that fires
\* max(0, expires_in_seconds - buffer) seconds from now
ScheduleAtPositive(tok, clk, buffer_seconds) ==
    LET d == expires_in_seconds(tok, clk) - buffer_seconds
        refresh_in == IF d > 0 THEN d ELSE 1
    IN  [armed |-> TRUE, sec |-> clk.sec + refresh_in, half |-> clk.half]
ScheduleAt(tok, clk, buffer_seconds) ==
    LET d == expires_in_seconds(tok, clk) - buffer_seconds
        refresh_in == IF d > 0 THEN d ELSE 0
    IN  [armed |-> TRUE, sec |-> clk.sec + refresh_in, half |-> clk.half]

\* self._refresh_timer.cancel(): the number of pending timers it stops (a
\* timer that has fired is not stopped; None has nothing to cancel)
CancelNothing(tm) == 0
Cancel(tm) == IF tm.armed THEN 1 ELSE 0

\* `if self.proactive_refresh: self._schedule_refresh()` at the end of a
\* successful _refresh_token
ReschedulesNever(enabled) == FALSE
Reschedules(enabled) == enabled

\* the pending timers after _schedule_refresh
PendingAfterSchedule(n, tm) == n - Cancel(tm) + 1

\* self._refresh_timer after the except branch of _refresh_token, which
\* only raises
TimerAfterFailedPostCancelled(tm) == Unarmed
TimerAfterFailedPost(tm) == tm

TimerDue(tm, clk) ==
    tm.armed /\ (clk.sec > tm.sec \/ (clk.sec = tm.sec /\ clk.half >= tm.half))

(* ------------------------------- Init ---------------------------------- *)
\* TokenManager.__init__: load the Token State from the scope, then
\* schedule the proactive refresh when enabled.
Init ==
    /\ now = [sec |-> StartSec, half |-> 0]
    /\ refresh_buffer_seconds \in Buffers
    /\ proactive_refresh \in BOOLEAN
    /\ \E e \in InitExpiries :
          token = [access_token |-> 1, refresh_token |-> 1, expires_at |-> e]
    /\ doppler = Mirror(token)
    /\ lock = NoThread
    /\ refresh_timer = IF proactive_refresh
                       THEN ScheduleAt(token, now, refresh_buffer_seconds)
                       ELSE Unarmed
    /\ issued = 1
    /\ pc = [t \in Threads |-> "idle"]
    /\ meth = [t \in Threads |-> "none"]
    /\ inEq = [t \in Threads |-> FALSE]
    /\ eq = [t \in Threads |-> NoEq]
    /\ waited = [t \in Threads |-> "no"]
    /\ h = NoH
    /\ evTM = NoEvTM
    /\ evEQ = NoEvEQ
    /\ dirty = FALSE
    /\ unlockedAccess = FALSE
    /\ proactive_failed = FALSE
    /\ pending_timers = IF proactive_refresh
                        THEN PendingAfterSchedule(0, Unarmed)
                        ELSE 0
    /\ server_refresh_token = token.refresh_token
    /\ client_executor = None
    /\ executor = GraphQLExecutor(1)
    /\ evX = NoEvX
    /\ seen = None

(* -------------------------------- lock --------------------------------- *)
\* threading.Lock: `with self._lock` proceeds only when nobody holds it
LockAvailableBroken(l) == TRUE
LockAvailable(l) == l = NoThread

(* --------------------------- TokenManager ------------------------------ *)
\* the condition under which a method calls _refresh_token once it holds
\* the lock: get_token tests should_refresh, refresh_on_401 and
\* _proactive_refresh call it unconditionally
NeedsRefreshAlways(m, tok, clk, b) == TRUE
NeedsRefreshLenient(m, tok, clk, b) ==
    IF m = "get_token" THEN expires_in_seconds(tok, clk) <= b ELSE TRUE
NeedsRefreshConditional401(m, tok, clk, b) == should_refresh(tok, clk, b)
NeedsRefreshOnlyExpired(m, tok, clk, b) ==
    IF m = "get_token" THEN is_expired(tok, clk) ELSE TRUE
NeedsRefreshConditionalProactive(m, tok, clk, b) ==
    IF m = "refresh_on_401" THEN TRUE ELSE should_refresh(tok, clk, b)
NeedsRefresh(m, tok, clk, b) ==
    IF m = "get_token" THEN should_refresh(tok, clk, b) ELSE TRUE

\* _proactive_refresh: `except AuthenticationError: pass` around the
\* `with self._lock: self._refresh_token()` block; whatever else is raised
\* leaves the callback
Swallows(k) == k = "AuthenticationError"
CallbackOutcome(r) == IF r.kind = "ok" \/ Swallows(r.kind) THEN Ok(0) ELSE r

\* how `with self._lock:` leaves the lock when its body raises
WithExitOnRaiseHeld(t) == t
WithExitOnRaise(t) == NoThread

\* 'refresh_token': self._token.refresh_token in the body of the POST
RefreshTokenSentFromStore(tok, store) == store["JOBBER_REFRESH_TOKEN"]
RefreshTokenSent(tok, store) == tok.refresh_token

\* the TokenInfo built from a successful response
NewTokenInfoStale(old, data, clk) == old
NewTokenInfoKeepExpiry(old, data, clk) ==
    [access_token |-> data.access_token,
     refresh_token |-> IF data.has_refresh THEN data.refresh_token
                       ELSE old.refresh_token,
     expires_at |-> old.expires_at]
NewTokenInfoNeverRetains(old, data, clk) ==
    [access_token |-> data.access_token,
     refresh_token |-> data.refresh_token,
     expires_at |-> clk.sec + data.expires_in]
NewTokenInfo(old, data, clk) ==
    [access_token |-> data.access_token,
     refresh_token |-> IF data.has_refresh THEN data.refresh_token
                       ELSE old.refresh_token,
     expires_at |-> clk.sec + data.expires_in]

\* where _refresh_token goes after replacing self._token
AfterReplaceSkipSave == "sched"
AfterReplace == "save1"

\* the keys of the response that _refresh_token reads with data[...]
ResponseKeys == {"expires_in", "access_token"}

NextSave(p) ==
    IF p = "save1" THEN "save2" ELSE IF p = "save2" THEN "save3" ELSE "sched"
SaveIdx(p) == IF p = "save1" THEN 1 ELSE IF p = "save2" THEN 2 ELSE 3
SavePcs == {"save1", "save2", "save3"}
RefreshPcs == {"post", "save1", "save2", "save3", "sched"}

(* ---------------------------- JobberClient ----------------------------- *)
\* what execute_query sees of an execute call: response['data'] or the
\* exception
Outcome(res) == IF res.kind = "ok" THEN Ok(res.data[1]) ELSE Raise(res.kind)

\* executor = GraphQLExecutor(access_token); executor.execute(...): the
\* outcome and the executor afterwards, for every outcome of the POST (the
\* token does not change what the facade can read back)
FacadeTransports ==
    {NoResponse(k) : k \in {"Timeout", "ConnectionError"}}
    \cup {Response(st, b) : st \in Statuses, b \in ErrorBodies}
    \cup {Response(200, b) : b \in Bodies \ (ThrottleBodies \cup {JsonNull})}
ExecRuns ==
    {[outcome |-> Outcome(x.res), executor |-> x.self] :
        x \in {execute(GraphQLExecutor(0), q, tr) :
                  q \in Queries, tr \in FacadeTransports}}
ExecOutcomes == {run.outcome : run \in ExecRuns}

\* self._executor after an attempt: execute_query keeps the executor in a
\* local variable and never assigns the field
ExecutorFieldStored(old, ex) == Some(ex)
ExecutorField(old, ex) == old

\* JobberClient.get_throttle_status
client_get_throttle_status ==
    IF client_executor = None THEN None
    ELSE get_throttle_status(client_executor[1])

\* the `except AuthenticationError` clause around the first execute
RetriesOnAny(outcome) == outcome.kind # "ok"
RetriesOn(outcome) == outcome.kind = "AuthenticationError"

(* ------------------------- control flow of a call ---------------------- *)
\* What thread t does once TokenManager method m has returned or raised r,
\* hist being the history of that call, e whether execute_query made the
\* call and q the history of that execute_query.  Inside execute_query a
\* token goes to a new GraphQLExecutor and an exception propagates out of
\* execute_query (neither TokenManager call is inside the try block).
\* Elsewhere the call is over: the caller has its result, the timer thread
\* ends.
AfterTM(t, m, e, q, r, hist) ==
    LET q2 == IF m = "get_token"
              THEN [q EXCEPT !.refreshes = @ + hist.posts,
                             !.gtPosts = hist.posts,
                             !.gtNeed = hist.need]
              ELSE [q EXCEPT !.refreshes = @ + hist.posts,
                             !.r401res = r]
    IN
    /\ evTM' = [set |-> TRUE, meth |-> m, inEq |-> e, res |-> r,
                out |-> IF m = "proactive" THEN CallbackOutcome(r) ELSE r,
                waited |-> waited[t], h |-> hist]
    /\ h' = NoH
    /\ proactive_failed' =
          IF m = "proactive" THEN (r.kind # "ok" /\ hist.mine = 0)
          ELSE IF m = "get_token" THEN FALSE
          ELSE (proactive_failed /\ hist.mine = 0)
    /\ IF e /\ r.kind = "ok"
       THEN /\ pc' = [pc EXCEPT ![t] = IF m = "get_token" THEN "exec1" ELSE "exec2"]
            /\ meth' = [meth EXCEPT ![t] = m]
            /\ inEq' = [inEq EXCEPT ![t] = TRUE]
            /\ eq' = [eq EXCEPT ![t] = [q2 EXCEPT !.executors = @ + 1]]
            /\ evEQ' = NoEvEQ
       ELSE /\ pc' = [pc EXCEPT ![t] = "idle"]
            /\ meth' = [meth EXCEPT ![t] = "none"]
            /\ inEq' = [inEq EXCEPT ![t] = FALSE]
            /\ eq' = [eq EXCEPT ![t] = NoEq]
            /\ evEQ' = IF e
                       THEN [set |-> TRUE, q |-> q2, second |-> NoRes, out |-> r]
                       ELSE NoEvEQ

\* the history of a call at the moment it gets the lock
HistAtLock ==
    [NoH EXCEPT !.need = SpecShouldRefresh(token.expires_at, now,
                                           refresh_buffer_seconds),
                !.latest = (token.access_token = issued),
                !.afterFail = proactive_failed]

\* ... and at the moment it sends its POST
HistAtPost ==
    [HistAtLock EXCEPT !.sent = RefreshTokenSent(token, doppler)]

\* Thread t reaches `with self._lock:` in method m.  When the lock is held
\* it blocks.  Otherwise it takes the lock and makes the method's test: into
\* _refresh_token, or (get_token only) return self._token.access_token,
\* which leaves the `with` block at once.
EnterTM(t, m, e, q) ==
    IF ~LockAvailable(lock)
    THEN /\ pc' = [pc EXCEPT ![t] = "lock"]
         /\ meth' = [meth EXCEPT ![t] = m]
         /\ inEq' = [inEq EXCEPT ![t] = e]
         /\ eq' = [eq EXCEPT ![t] = q]
         /\ evTM' = NoEvTM /\ evEQ' = NoEvEQ
         /\ UNCHANGED <<lock, h, unlockedAccess, proactive_failed>>
    ELSE /\ unlockedAccess' = (unlockedAccess \/ lock # NoThread)
         /\ IF NeedsRefresh(m, token, now, refresh_buffer_seconds)
            THEN /\ lock' = t
                 /\ pc' = [pc EXCEPT ![t] = "post"]
                 /\ meth' = [meth EXCEPT ![t] = m]
                 /\ inEq' = [inEq EXCEPT ![t] = e]
                 /\ eq' = [eq EXCEPT ![t] = q]
                 /\ h' = HistAtPost
                 /\ evTM' = NoEvTM /\ evEQ' = NoEvEQ
                 /\ UNCHANGED proactive_failed
            ELSE /\ lock' = lock
                 /\ AfterTM(t, m, e, q, Ok(token.access_token), HistAtLock)

(* ------------------------------- actions ------------------------------- *)
Tick ==
    /\ now.sec < StartSec + MaxSec
    /\ now' = IF now.half = 0 THEN [now EXCEPT !.half = 1]
              ELSE [sec |-> now.sec + 1, half |-> 0]
    /\ evTM' = NoEvTM /\ evEQ' = NoEvEQ
    /\ UNCHANGED <<cfg, token, doppler, lock, refresh_timer, issued, pc, meth,
                   inEq, eq, waited, h, dirty, unlockedAccess,
                   proactive_failed>>
    /\ UNCHANGED <<client_executor, exvars>>
    /\ UNCHANGED <<pending_timers, server_refresh_token>>

\* a caller calls get_token, refresh_on_401 or JobberClient.execute_query,
\* whose first statement is self.token_manager.get_token()
StartCall(t, o) ==
    /\ t \in Callers
    /\ (o = "execute_query") = (t \in Clients)
    /\ pc[t] = "idle"
    /\ EnterTM(t, IF o = "execute_query" THEN "get_token" ELSE o,
               o = "execute_query", NoEq)
    /\ UNCHANGED <<now, cfg, token, doppler, refresh_timer, issued, waited, dirty>>
    /\ UNCHANGED <<client_executor, exvars>>
    /\ UNCHANGED <<pending_timers, server_refresh_token>>

\* the armed threading.Timer expires and runs _proactive_refresh on a
\* thread of its own
TimerFire(t) ==
    /\ t \in TimerThreads
    /\ pc[t] = "idle"
    /\ TimerDue(refresh_timer, now)
    /\ refresh_timer' = Unarmed
    /\ pending_timers' = pending_timers - 1
    /\ EnterTM(t, "proactive", FALSE, NoEq)
    /\ UNCHANGED <<now, cfg, token, doppler, issued, waited, dirty>>
    /\ UNCHANGED <<client_executor, exvars, server_refresh_token>>

\* a blocked thread gets the lock and its method goes into _refresh_token
AcquireRefresh(t) ==
    /\ pc[t] = "lock"
    /\ LockAvailable(lock)
    /\ NeedsRefresh(meth[t], token, now, refresh_buffer_seconds)
    /\ unlockedAccess' = (unlockedAccess \/ lock # NoThread)
    /\ lock' = t
    /\ pc' = [pc EXCEPT ![t] = "post"]
    /\ h' = HistAtPost
    /\ evTM' = NoEvTM /\ evEQ' = NoEvEQ
    /\ UNCHANGED <<now, cfg, token, doppler, refresh_timer, issued, meth, inEq,
                   eq, waited, dirty, proactive_failed>>
    /\ UNCHANGED <<client_executor, exvars>>
    /\ UNCHANGED <<pending_timers, server_refresh_token>>

\* a thread blocked in get_token gets the lock and should_refresh is false:
\* return self._token.access_token
AcquireReturn(t) ==
    /\ pc[t] = "lock"
    /\ LockAvailable(lock)
    /\ ~NeedsRefresh(meth[t], token, now, refresh_buffer_seconds)
    /\ unlockedAccess' = (unlockedAccess \/ lock # NoThread)
    /\ AfterTM(t, meth[t], inEq[t], eq[t], Ok(token.access_token), HistAtLock)
    /\ waited' = [waited EXCEPT ![t] = "no"]
    /\ UNCHANGED <<now, cfg, token, doppler, lock, refresh_timer, issued, dirty>>
    /\ UNCHANGED <<client_executor, exvars>>
    /\ UNCHANGED <<pending_timers, server_refresh_token>>

\* who is blocked in get_token while thread t's POST completes
Waiters(t) == {u \in Threads \ {t} : pc[u] = "lock" /\ meth[u] = "get_token"}

\* waited after a POST of thread t: the blocked get_token callers have
\* waited for a failed POST ("failed") or for a successful one ("ok"); t
\* itself forgets what it waited for when its call ends
WaitedAfterPost(t, v, ends) ==
    [u \in Threads |->
        IF u \in Waiters(t)
        THEN (IF v = "ok" \/ waited[u] = "ok" THEN "ok" ELSE "failed")
        ELSE IF u = t /\ ends THEN "no"
        ELSE waited[u]]

\* _refresh_token, the POST raises requests.RequestException (connection
\* failure, timeout, or raise_for_status on an error status): wrapped in
\* AuthenticationError
PostFails(t) ==
    /\ pc[t] = "post"
    /\ unlockedAccess' = (unlockedAccess \/ lock # t)
    /\ lock' = WithExitOnRaise(t)
    /\ AfterTM(t, meth[t], inEq[t], eq[t], Raise("AuthenticationError"),
               [h EXCEPT !.posts = @ + 1])
    /\ waited' = WaitedAfterPost(t, "failed", TRUE)
    /\ refresh_timer' = TimerAfterFailedPost(refresh_timer)
    /\ UNCHANGED <<now, cfg, token, doppler, issued, dirty>>
    /\ UNCHANGED <<client_executor, exvars>>
    /\ UNCHANGED <<pending_timers, server_refresh_token>>

\* _refresh_token, the POST answers 2xx with a JSON object that lacks
\* 'expires_in' or 'access_token': data[...] raises KeyError before
\* self._token is assigned, and `except requests.RequestException` does
\* not catch it
PostBadBody(t, missing) ==
    /\ pc[t] = "post"
    /\ unlockedAccess' = (unlockedAccess \/ lock # t)
    /\ lock' = WithExitOnRaise(t)
    /\ AfterTM(t, meth[t], inEq[t], eq[t], Raise("KeyError"),
               [h EXCEPT !.posts = @ + 1, !.missing = missing])
    /\ waited' = WaitedAfterPost(t, "failed", TRUE)
    /\ UNCHANGED <<now, cfg, token, doppler, refresh_timer, issued, dirty>>
    /\ UNCHANGED <<client_executor, exvars>>
    /\ UNCHANGED <<pending_timers, server_refresh_token>>

\* _refresh_token, the POST succeeds: self._token is replaced wholesale
PostOk(t, life, hasRefresh) ==
    /\ pc[t] = "post"
    /\ issued < MaxIssued
    /\ unlockedAccess' = (unlockedAccess \/ lock # t)
    /\ issued' = issued + 1
    /\ token' = NewTokenInfo(token,
                             [access_token |-> issued + 1,
                              refresh_token |-> IF hasRefresh THEN issued + 1
                                                ELSE 0,
                              has_refresh |-> hasRefresh,
                              expires_in |-> life],
                             now)
    /\ h' = [h EXCEPT !.posts = @ + 1, !.mine = issued + 1,
                      !.issueSec = now.sec, !.life = life,
                      !.sent = 0, !.has_refresh = hasRefresh]
    /\ server_refresh_token' = IF hasRefresh THEN issued + 1
                               ELSE server_refresh_token
    /\ waited' = WaitedAfterPost(t, "ok", FALSE)
    /\ pc' = [pc EXCEPT ![t] = AfterReplace]
    /\ proactive_failed' = FALSE
    /\ evTM' = NoEvTM /\ evEQ' = NoEvEQ
    /\ UNCHANGED <<now, cfg, doppler, lock, refresh_timer, meth, inEq, eq,
                   dirty>>
    /\ UNCHANGED <<client_executor, exvars, pending_timers>>

\* _save_to_doppler, one `doppler secrets set` succeeds
SaveOk(t) ==
    /\ pc[t] \in SavePcs
    /\ unlockedAccess' = (unlockedAccess \/ lock # t)
    /\ LET s == Secrets(token)[SaveIdx(pc[t])]
       IN  doppler' = [doppler EXCEPT ![s[1]] = s[2]]
    /\ pc' = [pc EXCEPT ![t] = NextSave(pc[t])]
    /\ dirty' = IF pc[t] = "save3" THEN FALSE ELSE dirty
    /\ evTM' = NoEvTM /\ evEQ' = NoEvEQ
    /\ UNCHANGED <<now, cfg, token, lock, refresh_timer, issued, meth, inEq,
                   eq, waited, h, proactive_failed>>
    /\ UNCHANGED <<client_executor, exvars>>
    /\ UNCHANGED <<pending_timers, server_refresh_token>>

\* _save_to_doppler, one `doppler secrets set` fails: a non-zero exit is
\* CalledProcessError, wrapped in AuthenticationError; the 10 s timeout is
\* subprocess.TimeoutExpired, which nothing catches.  self._token keeps the
\* new value and _schedule_refresh is not reached.
SaveFails(t, exc) ==
    /\ pc[t] \in SavePcs
    /\ unlockedAccess' = (unlockedAccess \/ lock # t)
    /\ dirty' = TRUE
    /\ lock' = WithExitOnRaise(t)
    /\ AfterTM(t, meth[t], inEq[t], eq[t],
               IF exc = "CalledProcessError" THEN Raise("AuthenticationError")
               ELSE Raise(exc), h)
    /\ waited' = [waited EXCEPT ![t] = "no"]
    /\ UNCHANGED <<now, cfg, token, doppler, refresh_timer, issued>>
    /\ UNCHANGED <<client_executor, exvars>>
    /\ UNCHANGED <<pending_timers, server_refresh_token>>

\* the end of _refresh_token and of the method that called it:
\* _schedule_refresh when enabled, then return self._token.access_token,
\* leaving the `with` block
RefreshReturns(t) ==
    /\ pc[t] = "sched"
    /\ unlockedAccess' = (unlockedAccess \/ lock # t)
    /\ refresh_timer' = IF Reschedules(proactive_refresh)
                        THEN ScheduleAt(token, now, refresh_buffer_seconds)
                        ELSE refresh_timer
    /\ pending_timers' = IF Reschedules(proactive_refresh)
                         THEN PendingAfterSchedule(pending_timers, refresh_timer)
                         ELSE pending_timers
    /\ lock' = NoThread
    /\ AfterTM(t, meth[t], inEq[t], eq[t], Ok(token.access_token), h)
    /\ waited' = [waited EXCEPT ![t] = "no"]
    /\ UNCHANGED <<now, cfg, token, doppler, issued, dirty>>
    /\ UNCHANGED <<client_executor, exvars, server_refresh_token>>

\* execute_query: the first executor.execute(...) finishes; on
\* AuthenticationError the caller goes on to refresh_on_401(), any other
\* outcome is the outcome of execute_query
Execute1(t, run) ==
    LET outcome == run.outcome
        q == [eq[t] EXCEPT !.attempts = @ + 1, !.first = outcome] IN
    /\ pc[t] = "exec1"
    /\ IF RetriesOn(outcome)
       THEN EnterTM(t, "refresh_on_401", TRUE, [q EXCEPT !.r401 = @ + 1])
       ELSE /\ pc' = [pc EXCEPT ![t] = "idle"]
            /\ meth' = [meth EXCEPT ![t] = "none"]
            /\ inEq' = [inEq EXCEPT ![t] = FALSE]
            /\ eq' = [eq EXCEPT ![t] = NoEq]
            /\ evTM' = NoEvTM
            /\ evEQ' = [set |-> TRUE, q |-> q, second |-> NoRes,
                        out |-> outcome]
            /\ UNCHANGED <<lock, h, unlockedAccess, proactive_failed>>
    /\ client_executor' = ExecutorField(client_executor, run.executor)
    /\ UNCHANGED <<now, cfg, token, doppler, refresh_timer, issued, waited, dirty>>
    /\ UNCHANGED exvars
    /\ UNCHANGED <<pending_timers, server_refresh_token>>

\* execute_query: the second executor.execute(...) finishes; its result or
\* exception is the result of execute_query
Execute2(t, run) ==
    /\ pc[t] = "exec2"
    /\ pc' = [pc EXCEPT ![t] = "idle"]
    /\ meth' = [meth EXCEPT ![t] = "none"]
    /\ inEq' = [inEq EXCEPT ![t] = FALSE]
    /\ eq' = [eq EXCEPT ![t] = NoEq]
    /\ evTM' = NoEvTM
    /\ evEQ' = [set |-> TRUE, q |-> [eq[t] EXCEPT !.attempts = @ + 1],
                second |-> run.outcome, out |-> run.outcome]
    /\ client_executor' = ExecutorField(client_executor, run.executor)
    /\ UNCHANGED <<now, cfg, token, doppler, lock, refresh_timer, issued,
                   waited, h, dirty, unlockedAccess, proactive_failed>>
    /\ UNCHANGED exvars
    /\ UNCHANGED <<pending_timers, server_refresh_token>>

Next ==
    \/ Tick
    \/ \E t \in Callers, o \in {"get_token", "refresh_on_401", "execute_query"} :
          StartCall(t, o)
    \/ \E t \in TimerThreads : TimerFire(t)
    \/ \E t \in Threads : AcquireRefresh(t)
    \/ \E t \in Threads : AcquireReturn(t)
    \/ \E t \in Threads : PostFails(t)
    \/ \E t \in Threads, missing \in ResponseKeys : PostBadBody(t, missing)
    \/ \E t \in Threads, life \in Lifetimes, hasRefresh \in BOOLEAN :
          PostOk(t, life, hasRefresh)
    \/ \E t \in Threads : SaveOk(t)
    \/ \E t \in Threads, exc \in {"CalledProcessError", "TimeoutExpired"} :
          SaveFails(t, exc)
    \/ \E t \in Threads : RefreshReturns(t)
    \/ \E t \in Clients, run \in ExecRuns : Execute1(t, run)
    \/ \E t \in Clients, run \in ExecRuns : Execute2(t, run)

Spec == Init /\ [][Next]_vars

\* the thread that holds the lock finishes the blocking call it is in: the
\* token-endpoint POST (timeout=30), a `doppler secrets set` (timeout=10),
\* or the rest of _refresh_token
HolderStep ==
    \E t \in Threads :
        \/ PostFails(t)
        \/ \E missing \in ResponseKeys : PostBadBody(t, missing)
        \/ \E life \in Lifetimes, hasRefresh \in BOOLEAN :
              PostOk(t, life, hasRefresh)
        \/ SaveOk(t)
        \/ \E exc \in {"CalledProcessError", "TimeoutExpired"} :
              SaveFails(t, exc)
        \/ RefreshReturns(t)

\* What the code's environment guarantees about progress: every POST and
\* every Secret Store call ends, and a thread blocked on the lock gets it at
\* one of the moments it is free.
Fairness ==
    /\ WF_vars(HolderStep)
    /\ \A t \in Threads : SF_vars(AcquireRefresh(t) \/ AcquireReturn(t))

\* one deployment: proactive refresh on, a buffer of 2 s, a loaded token
\* that expires 2 s after construction
LiveInit ==
    /\ Init
    /\ refresh_buffer_seconds = 2
    /\ proactive_refresh
    /\ token.expires_at = StartSec + 2

\* the TokenManager used directly, without the facade: the proactive
\* callback and a caller of get_token() and refresh_on_401() contend for
\* the lock
LiveNext ==
    \/ Tick
    \/ \E t \in Direct, o \in {"get_token", "refresh_on_401"} : StartCall(t, o)
    \/ \E t \in TimerThreads : TimerFire(t)
    \/ \E t \in Threads : AcquireRefresh(t)
    \/ \E t \in Threads : AcquireReturn(t)
    \/ HolderStep

LiveSpec == LiveInit /\ [][LiveNext]_vars /\ Fairness

(* ----------------------- one executor, on its own ---------------------- *)
\* the response went through the status checks and response.json() and has
\* an extensions.cost.throttleStatus section
CarriesThrottle(tr) ==
    /\ tr.kind = "response"
    /\ tr.status \notin 400..599
    /\ tr.body.json = "object"
    /\ tr.body.ext = "throttleStatus"

\* executor.execute(query), tr being the outcome of its requests.post
CallExecute(query, tr) ==
    LET x == execute(executor, query, tr) IN
    /\ executor' = x.self
    /\ evX' = [set |-> TRUE, query |-> query, tr |-> tr, res |-> x.res,
               before |-> get_throttle_status(executor), posts |-> 1]
    /\ seen' = IF CarriesThrottle(tr) THEN Some(tr.body.throttle) ELSE seen
    /\ UNCHANGED <<tmvars, client_executor>>

\* executor = GraphQLExecutor(access_token)
NewExecutor(access_token) ==
    /\ executor' = GraphQLExecutor(access_token)
    /\ evX' = NoEvX
    /\ seen' = None
    /\ UNCHANGED <<tmvars, client_executor>>

ExecInit ==
    /\ Init
    /\ refresh_buffer_seconds = 0
    /\ ~proactive_refresh
    /\ token.expires_at = StartSec + 2

ExecNext ==
    \/ \E query \in Queries, tr \in Transports : CallExecute(query, tr)
    \/ NewExecutor(token.access_token)

ExecSpec == ExecInit /\ [][ExecNext]_vars

TypeOK ==
    /\ lock \in Threads \cup {NoThread}
    /\ issued \in 1..MaxIssued
    /\ token.access_token \in 1..MaxIssued

(* ======================================================================= *)
(*                               Properties                                *)
(* ======================================================================= *)
GetTokenReturned == evTM.set /\ evTM.meth = "get_token"
Refresh401Returned == evTM.set /\ evTM.meth = "refresh_on_401"
InRefresh == {t \in Threads : pc[t] \in RefreshPcs}

C2_OneRefreshInFlight ==
    /\ Cardinality(InRefresh) <= 1
    /\ \A t \in InRefresh : lock = t
    /\ ~unlockedAccess

C2_Witness ==
    /\ pc["client"] \in SavePcs
    /\ pc["direct"] = "lock" /\ meth["direct"] = "refresh_on_401"
    /\ pc["timer"] = "lock"

\* C3 as stated: execute_query makes a second execute attempt if and only if
\* the first attempt raised AuthenticationError.
C3_SecondAttemptIffAuthError ==
    evEQ.set => ((evEQ.q.attempts = 2) <=>
                 (evEQ.q.first.kind = "AuthenticationError"))

\* C3 amended: execute_query makes a second execute attempt if and only if
\* the first attempt raised AuthenticationError and refresh_on_401() then
\* returned a token; refresh_on_401() is called exactly once after a first
\* AuthenticationError and never otherwise; the second attempt's outcome is
\* the outcome of execute_query and there is no third attempt; any other
\* first exception is the outcome at once, with one executor built; an
\* exception of refresh_on_401() is the outcome with no second attempt.
C3_BoundedRetry ==
    evEQ.set =>
        LET q == evEQ.q IN
        /\ q.attempts <= 2
        /\ (q.attempts = 2) <=> (/\ q.first.kind = "AuthenticationError"
                                 /\ q.r401res.kind = "ok")
        /\ q.r401 = (IF q.first.kind = "AuthenticationError" THEN 1 ELSE 0)
        /\ q.attempts = 2 => (evEQ.out = evEQ.second /\ q.executors = 2)
        /\ (q.attempts = 1 /\ q.first.kind # "AuthenticationError") =>
               (evEQ.out = q.first /\ q.executors = 1 /\ q.r401res = NoRes)
        /\ (q.attempts = 1 /\ q.first.kind = "AuthenticationError") =>
               (evEQ.out = q.r401res /\ q.executors = 1)

C3_Witness ==
    /\ evEQ.set /\ evEQ.q.attempts = 2
    /\ evEQ.q.first.kind = "AuthenticationError"
    /\ evEQ.out.kind = "AuthenticationError"

\* C4 as stated: an execute_query whose first attempt fails with 401 and
\* whose second attempt succeeds has invoked the refresh routine exactly once.
C4_ExactlyOneRefresh ==
    (evEQ.set /\ evEQ.q.attempts = 2 /\ evEQ.out.kind = "ok") =>
        evEQ.q.refreshes = 1

\* C4 amended: such an execute_query returns the second attempt's data, and
\* has invoked the refresh routine exactly once when get_token() found the
\* Token State outside the refresh buffer, exactly twice (get_token(), then
\* refresh_on_401()) when get_token() found it inside the buffer.
C4_RefreshCount ==
    (evEQ.set /\ evEQ.q.attempts = 2 /\ evEQ.out.kind = "ok") =>
        /\ evEQ.q.first.kind = "AuthenticationError"
        /\ evEQ.out = evEQ.second
        /\ evEQ.q.refreshes = (IF evEQ.q.gtNeed THEN 2 ELSE 1)

C4_Witness ==
    /\ evEQ.set /\ evEQ.q.attempts = 2 /\ evEQ.out.kind = "ok"
    /\ evEQ.q.gtNeed /\ evEQ.q.refreshes = 2

\* C5 as stated: whenever get_token() or refresh_on_401() returns an access
\* token, the three fields of the Token State it belongs to are in the
\* Secret Store.
C5_ReturnedTokenIsPersisted ==
    (evTM.set /\ evTM.meth # "proactive" /\ evTM.res.kind = "ok") =>
        (evTM.res.val = token.access_token /\ doppler = Mirror(token))

\* C5 amended: whenever a call of get_token() or refresh_on_401() that
\* itself refreshed returns, it returns the access token its own POST was
\* issued and the three fields of that Token State are in the Secret Store.
C5_RefreshingCallPersistsFirst ==
    (evTM.set /\ evTM.meth # "proactive" /\ evTM.res.kind = "ok"
              /\ evTM.h.posts > 0) =>
        /\ evTM.res.val = token.access_token
        /\ evTM.res.val = evTM.h.mine
        /\ doppler = Mirror(token)

C5_Witness ==
    /\ GetTokenReturned /\ evTM.res.kind = "ok" /\ evTM.h.posts = 1
    /\ doppler = Mirror(token) /\ token.access_token > 1

\* C6 as stated: whenever the lock is free the Secret Store holds exactly
\* the three fields of the in-memory Token State.
C6_MirrorWheneverLockFree ==
    lock = NoThread => doppler = Mirror(token)

\* C6 amended: whenever the lock is free and the last save was not cut
\* short by a failed Secret Store write, the Secret Store holds exactly the
\* three fields of the in-memory Token State.
C6_MirrorUnlessSaveFailed ==
    (lock = NoThread /\ ~dirty) => doppler = Mirror(token)

C6_Witness ==
    /\ lock = NoThread /\ ~dirty /\ token.access_token = 3
    /\ token.refresh_token # token.access_token
    /\ doppler = Mirror(token)

\* C7: every refresh_on_401() call makes exactly one POST, whether or not
\* the Token State was inside the buffer, and when it returns a token it is
\* the access token its own POST was issued.
C7_RefreshOn401Unconditional ==
    Refresh401Returned =>
        /\ evTM.h.posts = 1
        /\ evTM.res.kind = "ok" =>
              (evTM.h.mine > 0 /\ evTM.res.val = evTM.h.mine)

C7_Witness ==
    /\ Refresh401Returned /\ evTM.res.kind = "ok"
    /\ ~evTM.h.need /\ evTM.h.posts = 1

\* C8: get_token() makes a POST if and only if
\* max(0, expires_at - now) < refresh_buffer_seconds at the moment it holds
\* the lock (so never when the buffer is 0); otherwise it returns the
\* current access token and the step changes neither the Token State, the
\* Secret Store, the timer nor the lock.
C8_Inv ==
    GetTokenReturned =>
        /\ evTM.h.posts = (IF evTM.h.need THEN 1 ELSE 0)
        /\ refresh_buffer_seconds = 0 => evTM.h.posts = 0
        /\ ~evTM.h.need => evTM.res = Ok(token.access_token)

C8_Frame ==
    (evTM'.set /\ evTM'.meth = "get_token" /\ ~evTM'.h.need) =>
        UNCHANGED <<token, doppler, refresh_timer, issued, lock>>

C8_GetTokenRefreshesIff == [](C8_Inv) /\ [][C8_Frame]_vars

C8_Witness ==
    /\ GetTokenReturned /\ evTM.h.need /\ evTM.h.posts = 1
    /\ evTM.res.kind = "ok"

\* a refresh is pending or in progress: the timer is armed, or a thread is
\* inside or waiting to enter a TokenManager method
RefreshPending ==
    refresh_timer.armed \/ \E t \in Threads : pc[t] \in RefreshPcs \cup {"lock"}

C10_OnlyAuthenticationError ==
    (evTM.set /\ evTM.meth # "proactive" /\ evTM.res.kind # "ok") =>
        (evTM.res.kind = "AuthenticationError" /\ evTM.h.posts = 1)

\* thread t is inside get_token(), refresh_on_401() or the proactive
\* callback: blocked on the lock, or holding it inside _refresh_token
InTokenManager(t) == pc[t] \in RefreshPcs \cup {"lock"}

\* C11: every call of get_token(), refresh_on_401() or the proactive
\* callback eventually returns or raises, given that every POST and every
\* Secret Store call ends; and the lock is held only by a thread that is
\* inside _refresh_token, so every exit path has released it.
C11_LockHeldOnlyInRefresh ==
    lock # NoThread => pc[lock] \in RefreshPcs

C12_ProactiveFailureSwallowed ==
    (evTM.set /\ evTM.meth = "proactive" /\ evTM.res.kind # "ok") =>
        evTM.out.kind = "ok"

\* C13 as stated: the first get_token() to get the lock after the POST of a
\* proactive refresh has failed makes a refresh of its own.
C13_NextGetTokenRefreshes ==
    (GetTokenReturned /\ evTM.h.afterFail) => evTM.h.posts = 1

\* C13 amended: the first get_token() to get the lock after the POST of a
\* proactive refresh has failed makes a refresh of its own if and only if
\* max(0, expires_at - now) < refresh_buffer_seconds at that moment;
\* otherwise it returns the access token of the unchanged Token State.
C13_NextGetTokenRefreshesInsideBuffer ==
    (GetTokenReturned /\ evTM.h.afterFail) =>
        /\ evTM.h.posts = (IF evTM.h.need THEN 1 ELSE 0)
        /\ evTM.h.posts = 0 => evTM.res = Ok(token.access_token)

C13_Witness ==
    /\ GetTokenReturned /\ evTM.h.afterFail /\ evTM.h.posts = 1
    /\ evTM.res.kind = "ok"

(* ------------------------ GraphQLExecutor.execute ---------------------- *)
\* the last step was an execute() whose POST got a 2xx response with a JSON
\* object as body
Got2xxObject ==
    /\ evX.set /\ evX.tr.kind = "response"
    /\ evX.tr.status \in 200..299
    /\ evX.tr.body.json = "object"

\* the throttle section of that response, if it has one
HasThrottleSection == evX.tr.body.ext = "throttleStatus"

\* currently_available < 0.20 * maximum_available in exact arithmetic, with
\* the defaults 0 and 10000 for absent fields
SpecBelowThreshold(ts) ==
    5 * (IF ts.currentlyAvailable = Absent THEN 0 ELSE ts.currentlyAvailable)
      < (IF ts.maximumAvailable = Absent THEN 10000 ELSE ts.maximumAvailable)

\* (0.20 * maximum_available - currently_available) / restore_rate as the
\* fraction num / den, restore_rate defaulting to 500
SpecWaitSeconds(ts) ==
    [num |-> (IF ts.maximumAvailable = Absent THEN 10000
              ELSE ts.maximumAvailable)
             - 5 * (IF ts.currentlyAvailable = Absent THEN 0
                    ELSE ts.currentlyAvailable),
     den |-> 5 * (IF ts.restoreRate = Absent THEN 500 ELSE ts.restoreRate)]

SameFraction(a, b) == a.num * b.den = b.num * a.den

\* C14: a 2xx JSON response whose throttle section is below threshold makes
\* execute() raise RateLimitError, whether the body also has data, errors or
\* neither; and 401, another error status, a timeout, a connection failure
\* or an unparseable body decide the outcome before the throttle section is
\* looked at.
C14_RateLimitBeforeGraphQLErrors ==
    evX.set =>
        /\ (Got2xxObject /\ HasThrottleSection
              /\ SpecBelowThreshold(evX.tr.body.throttle)) =>
                 evX.res.kind = "RateLimitError"
        /\ (evX.tr.kind = "response" /\ evX.tr.status = 401) =>
                 evX.res.kind = "AuthenticationError"
        /\ (\/ evX.tr.kind \in {"Timeout", "ConnectionError"}
            \/ evX.tr.kind = "response" /\ evX.tr.status \in {404, 500}
            \/ evX.tr.kind = "response" /\ evX.tr.status = 200
                 /\ evX.tr.body.json = "invalid") =>
                 evX.res.kind = "NetworkError"

\* C15 as stated: a 401 response raises AuthenticationError, a response with
\* any other non-2xx status raises NetworkError carrying the status code and
\* the body text, and execute() makes one POST.
C15_Non2xxIsNetworkError ==
    (evX.set /\ evX.tr.kind = "response") =>
        /\ evX.posts = 1
        /\ evX.tr.status = 401 => evX.res.kind = "AuthenticationError"
        /\ (evX.tr.status # 401 /\ evX.tr.status \notin 200..299) =>
              /\ evX.res.kind = "NetworkError"
              /\ evX.res.status_code = evX.tr.status
              /\ evX.res.text = evX.tr.body.text

\* C15 amended: a 401 response raises AuthenticationError; a response with
\* any other 4xx or 5xx status raises NetworkError carrying the status code
\* and the body text; a response with any other status is classified by its
\* body exactly as a 200 response with that body; execute() makes one POST.
C15_ErrorStatusIsNetworkError ==
    (evX.set /\ evX.tr.kind = "response") =>
        /\ evX.posts = 1
        /\ evX.tr.status = 401 => evX.res.kind = "AuthenticationError"
        /\ (evX.tr.status # 401 /\ evX.tr.status \in 400..599) =>
              /\ evX.res.kind = "NetworkError"
              /\ evX.res.status_code = evX.tr.status
              /\ evX.res.text = evX.tr.body.text
        /\ evX.tr.status \notin 400..599 =>
              evX.res = execute(GraphQLExecutor(0), evX.query,
                                Response(200, evX.tr.body)).res

C15_Witness ==
    /\ evX.set /\ evX.tr.kind = "response" /\ evX.tr.status = 500
    /\ evX.tr.body.json = "object" /\ evX.res.kind = "NetworkError"
    /\ evX.res.status_code = 500

\* C16: for every throttle section that execute() gets to, RateLimitError is
\* raised if and only if currently_available < 0.20 * maximum_available, and
\* then carries the section and wait_seconds = (threshold -
\* currently_available) / restore_rate with restore_rate 500 when absent.
C16_RateLimitPolicy ==
    (Got2xxObject /\ HasThrottleSection) =>
        LET ts == evX.tr.body.throttle IN
        /\ (evX.res.kind = "RateLimitError") <=> SpecBelowThreshold(ts)
        /\ evX.res.kind = "RateLimitError" =>
              /\ evX.res.throttle_status = Some(ts)
              /\ SameFraction(evX.res.wait_seconds, SpecWaitSeconds(ts))

\* C17: for a 2xx JSON response that does not trip the rate-limit policy, a
\* top-level errors list of any length makes execute() raise GraphQLError
\* with that list and the submitted query; a body with neither errors nor
\* data makes it raise GraphQLError; and it returns only when the body has
\* data and no errors, and then returns the data value.
C17_GraphQLErrors ==
    (Got2xxObject /\ ~(HasThrottleSection
                        /\ SpecBelowThreshold(evX.tr.body.throttle))) =>
        LET body == evX.tr.body IN
        /\ body.errors # None =>
              /\ evX.res.kind = "GraphQLError"
              /\ evX.res.errors = body.errors[1]
              /\ evX.res.query = evX.query
        /\ (body.errors = None /\ body.data = None) =>
              (evX.res.kind = "GraphQLError" /\ evX.res.query = evX.query)
        /\ (evX.res.kind = "ok") <=> (body.data # None /\ body.errors = None)
        /\ evX.res.kind = "ok" => evX.res.data = body.data

\* C18: whatever the POST does, execute() returns the data or raises one of
\* AuthenticationError, NetworkError, RateLimitError, GraphQLError.
C18_ClosedOutcomeSet ==
    evX.set => evX.res.kind \in {"ok", "AuthenticationError", "NetworkError",
                                 "RateLimitError", "GraphQLError"}

\* C19: get_throttle_status() is the throttle section of the most recent
\* response that got past the status checks and the JSON parse and had one
\* (None before the first); it is stored also when execute() then raises for
\* the rate limit, and an execute() that fails earlier or whose body has no
\* throttle section leaves it as it was.
C19_LastThrottleStatus ==
    /\ get_throttle_status(executor) = seen
    /\ evX.set =>
          get_throttle_status(executor) =
              (IF CarriesThrottle(evX.tr) THEN Some(evX.tr.body.throttle)
               ELSE evX.before)
    /\ (evX.set /\ evX.res.kind \in {"RateLimitError", "ZeroDivisionError"}) =>
          get_throttle_status(executor) = Some(evX.tr.body.throttle)

C19_Witness ==
    /\ evX.set /\ evX.res.kind = "RateLimitError"
    /\ evX.before # None
    /\ get_throttle_status(executor) # evX.before

SaveCompleted ==
    \/ \E t \in Threads : pc[t] = "sched"
    \/ evTM.set /\ evTM.res.kind = "ok" /\ evTM.h.posts = 1

\* C21: after a refresh whose save completed, a fresh TokenManager on the
\* same scope loads a Token State whose access_token, refresh_token and
\* expires_at are those of the in-memory Token State of the manager that
\* saved it.
C21_StoreRoundTrip ==
    SaveCompleted =>
        load_from_doppler(doppler) =
            Loaded(TokenText(token.access_token),
                   TokenText(token.refresh_token), token.expires_at)

C21_Witness ==
    /\ evTM.set /\ evTM.res.kind = "ok" /\ evTM.h.posts = 1
    /\ token.expires_at = 10
    /\ token.refresh_token # token.access_token
    /\ load_from_doppler(doppler).expires_at = 10
    /\ doppler["JOBBER_TOKEN_EXPIRES_AT"] = <<1, 0>>

\* C22: at most one proactive-refresh timer is pending in every state, and
\* it is the one self._refresh_timer refers to: whatever is armed cancels
\* the timer armed before it, under every interleaving of get_token(),
\* refresh_on_401() and timer firings after construction.
C22_SinglePendingTimer ==
    /\ pending_timers \in {0, 1}
    /\ pending_timers = (IF refresh_timer.armed THEN 1 ELSE 0)
    /\ ~proactive_refresh => pending_timers = 0

C22_Witness ==
    /\ evTM.set /\ evTM.meth = "refresh_on_401" /\ evTM.res.kind = "ok"
    /\ refresh_timer.armed /\ ~TimerDue(refresh_timer, now)
    /\ pc["timer"] = "lock"
    /\ pending_timers = 1

\* a refresh has just ended: in success, or in a failure of its POST, of the
\* response body or of a Secret Store write
RefreshSucceeded == evTM.set /\ evTM.h.posts = 1 /\ evTM.res.kind = "ok"
RefreshFailed == evTM.set /\ evTM.h.posts = 1 /\ evTM.res.kind # "ok"

C23_ArmedAfterSuccess ==
    (proactive_refresh /\ RefreshSucceeded) =>
        (refresh_timer.armed /\ pending_timers = 1)

C23_FailureKeepsTimer ==
    (evTM'.set /\ evTM'.h.posts = 1 /\ evTM'.res.kind # "ok") =>
        UNCHANGED <<refresh_timer, pending_timers>>

SaveFailed == evTM.set /\ evTM.h.mine > 0 /\ evTM.res.kind # "ok"

\* C24: whenever one of the three Secret Store writes of a refresh fails, the
\* refresh raises AuthenticationError and the in-memory Token State is the
\* newly issued one; and a get_token() that holds the lock while the save is
\* still cut short and the Token State is outside the buffer returns that
\* state's access token without a POST.
C24_NoRollbackOnSaveFailure ==
    /\ SaveFailed =>
          /\ evTM.res.kind = "AuthenticationError"
          /\ token.access_token = evTM.h.mine
          /\ token.expires_at = evTM.h.issueSec + evTM.h.life
    /\ (GetTokenReturned /\ dirty /\ ~evTM.h.need) =>
          (evTM.h.posts = 0 /\ evTM.res = Ok(token.access_token))

\* C25: the step in which a refresh POST is answered with a token replaces
\* the Token State by (the response's access token, the response's refresh
\* token or, when the response has none, the previous refresh token,
\* int(now) + expires_in), now being the time of that step.
C25_Replaced ==
    issued' # issued =>
        token' = [access_token |-> h'.mine,
                  refresh_token |-> IF h'.has_refresh THEN issued'
                                    ELSE token.refresh_token,
                  expires_at |-> now.sec + h'.life]

C25_RefreshResult == [][C25_Replaced]_vars

C25_Witness ==
    /\ \E t \in Threads : pc[t] = "save1"
    /\ h.mine = 3 /\ ~h.has_refresh
    /\ token.access_token = 3 /\ token.refresh_token = 2
    /\ now.half = 1 /\ token.expires_at = now.sec + h.life

\* C26: a refresh whose POST is answered 2xx without expires_in succeeds:
\* nothing is raised, the new Token State expires 3600 s after the refresh
\* and is saved, and the timer is rescheduled when proactive refresh is on.
C26_ExpiresInFallback ==
    (evTM.set /\ evTM.h.posts = 1 /\ evTM.h.missing = "expires_in") =>
        /\ evTM.res.kind = "ok"
        /\ token.access_token = evTM.h.mine
        /\ token.expires_at = evTM.h.issueSec + 3600
        /\ doppler = Mirror(token)
        /\ proactive_refresh => refresh_timer.armed

\* C27: whenever a refresh POST is in flight, its sender holds the lock and
\* the refresh token in its body is that of the current Token State, which
\* is the refresh token of the last grant that carried one: no refresh token
\* that a successful refresh has replaced is ever sent.
C27_RefreshTokenFreshness ==
    /\ \A t \in Threads :
          pc[t] = "post" =>
              /\ lock = t
              /\ h.sent = token.refresh_token
              /\ h.sent = server_refresh_token
    /\ (RefreshFailed /\ evTM.h.mine = 0) =>
          evTM.h.sent = server_refresh_token

C27_Witness ==
    /\ pc["timer"] = "post"
    /\ h.sent = 2 /\ token.access_token = 3
    /\ doppler["JOBBER_REFRESH_TOKEN"] = 1

\* the timer callback has just ended
ProactiveReturned == evTM.set /\ evTM.meth = "proactive"

\* C28 as stated: the timer callback makes a POST only when
\* max(0, expires_at - now) < refresh_buffer_seconds at the moment it holds
\* the lock.
C28_ProactiveOnlyWhenNeeded ==
    (ProactiveReturned /\ evTM.h.posts = 1) => evTM.h.need

\* C28 amended: the timer callback makes exactly one POST every time it gets
\* the lock, whether or not the Token State is inside the buffer at that
\* moment, also when it finds the token of a refresh that completed after
\* its timer had fired.
C28_ProactiveAlwaysRefreshes ==
    ProactiveReturned => evTM.h.posts = 1

\* the callback was blocked behind a refresh that succeeded (the timer that
\* refresh armed is still pending) and has made a POST, which failed, for
\* the token that refresh was issued, outside the buffer
C28_Witness ==
    /\ ProactiveReturned /\ evTM.h.posts = 1
    /\ evTM.res.kind = "AuthenticationError" /\ evTM.h.mine = 0
    /\ evTM.h.latest /\ ~evTM.h.need
    /\ token.access_token = 2
    /\ refresh_timer.armed /\ ~TimerDue(refresh_timer, now)

\* C29 as stated: the timer armed by a successful refresh has a strictly
\* positive delay, so it is not due at the instant the refresh returns.
C29_PositiveDelay ==
    (proactive_refresh /\ RefreshSucceeded) => ~TimerDue(refresh_timer, now)

\* C29 amended: the timer armed by a successful refresh has the delay
\* max(0, expires_in_seconds - refresh_buffer_seconds) taken when the
\* refresh returns, strictly positive if and only if the remaining whole
\* seconds of the new token then exceed the buffer; for a server-declared
\* lifetime not larger than the buffer the delay is zero and the timer is
\* due at once.
C29_DelayIsRemainderBeyondBuffer ==
    (proactive_refresh /\ RefreshSucceeded) =>
        LET rem == expires_in_seconds(token, now)
            delay == IF rem > refresh_buffer_seconds
                     THEN rem - refresh_buffer_seconds ELSE 0
        IN  /\ refresh_timer =
                  [armed |-> TRUE, sec |-> now.sec + delay, half |-> now.half]
            /\ TimerDue(refresh_timer, now) <=> rem <= refresh_buffer_seconds
            /\ evTM.h.life <= refresh_buffer_seconds =>
                  TimerDue(refresh_timer, now)

\* the callback has refreshed a token that was issued at the same instant,
\* and the timer it armed is due again
C29_Witness ==
    /\ proactive_refresh /\ RefreshSucceeded /\ ProactiveReturned
    /\ evTM.h.life <= refresh_buffer_seconds
    /\ evTM.h.mine = 3 /\ evTM.h.latest
    /\ now = [sec |-> StartSec, half |-> 0]
    /\ TimerDue(refresh_timer, now)

\* C30: a refresh whose POST fails (connection failure, timeout or error
\* status) raises AuthenticationError, and the step in which it fails
\* leaves the Token State, the three secrets of the scope and the timer as
\* they were.
C30_PostFailureRaises ==
    (RefreshFailed /\ evTM.h.mine = 0 /\ evTM.h.missing = "none") =>
        evTM.res.kind = "AuthenticationError"

C30_PostFailureFrame ==
    (evTM'.set /\ evTM'.h.posts = 1 /\ evTM'.res.kind # "ok"
        /\ evTM'.h.mine = 0 /\ evTM'.h.missing = "none") =>
        UNCHANGED <<token, doppler, refresh_timer, pending_timers>>

C30_FailedPostChangesNothing ==
    [](C30_PostFailureRaises) /\ [][C30_PostFailureFrame]_vars

C30_Witness ==
    /\ RefreshFailed /\ evTM.meth = "refresh_on_401"
    /\ evTM.h.mine = 0 /\ evTM.res.kind = "AuthenticationError"
    /\ refresh_timer.armed /\ pending_timers = 1
    /\ token.access_token = 2 /\ doppler # Mirror(token)

====
